---- MODULE Spec2Model ----
(***************************************************************************)
(* Model of the hospital guide-screen dispatcher.                          *)
(*   backend/server.js        the device registry (deviceStatus), the task *)
(*                            queue (guideTaskQueue) and the two handlers  *)
(*                            POST /report-status and GET /get-task        *)
(*   frontend/device-utils.js scheduleDailyReset (the 02:00 reset timer)   *)
(*                                                                         *)
(* Node runs each handler to completion on one thread, so a handler is one *)
(* atomic action; requests of different devices interleave between them.   *)
(*                                                                         *)
(* Values that arrive in a JSON body or a query string are JavaScript      *)
(* values.  A value is the record [t, n, s]: t its type tag, n its number  *)
(* (for "bool" 1/0), s its string.                                         *)
(***************************************************************************)
EXTENDS Integers, Sequences, FiniteSets, TLC

VARIABLES deviceStatus,    \* server.js:14   Map deviceId -> {isBusy, memory}
          guideTaskQueue,  \* server.js:20   array of tasks
          res,             \* the response the last handler sent
          assigned,        \* history: the tasks returned so far, in order
          held,            \* history: per device, the tasks assigned to it
                           \*          since its last accepted idle report
          lastAccepted,    \* history: per device with an accepted report,
                           \*          the {isBusy, memory} of the latest one
          now,             \* device-utils.js:59  the device clock (ms)
          resetTimer,      \* device-utils.js:67  the pending setTimeout
          devPc,           \* position of the device page
          settle,          \* how the promise the reset callback awaits ends
          sdkPresent,      \* window.digitalHumanSdk is there
          background,      \* the background the SDK shows
          reconnectTimers, \* device-utils.js:98  due times of the pending
                           \*          reconnect timeouts, oldest first
          reportInterval,  \* device-utils.js:36  the setInterval is running
          alerts,          \* history: alert() calls
          reinits,         \* history: initDigitalHumanSdk() calls
          retriesScheduled, \* history: reconnect timeouts ever armed
          errorsHandled,   \* history: handleSdkError calls
          lastErrorCode,   \* history: the code of the latest of them
          lastFired,       \* history: target of the reset timer that fired
                           \*          last, -1 before the first
          DEVICE_ID,       \* device-utils.js:43  the id the page reports as
          voicePlaying,    \* device-utils.js:44  window.voicePlaying
          flagEverSet,     \* history: window.voicePlaying was assigned
          ticks,           \* history: ticks of the 30-second interval
          attempts,        \* history: fetch calls made
          inFlight,        \* the reports whose callback has not finished
          logged,          \* history: console.log at line 49
          caught           \* history: console.error at line 51

vars == <<deviceStatus, guideTaskQueue, res, assigned, held, lastAccepted,
          now, resetTimer, devPc, settle, sdkPresent, background,
          reconnectTimers, reportInterval, alerts, reinits, retriesScheduled,
          errorsHandled, lastErrorCode, lastFired,
          DEVICE_ID, voicePlaying, flagEverSet, ticks, attempts, inFlight,
          logged, caught>>
serverVars ==
    <<deviceStatus, guideTaskQueue, res, assigned, held, lastAccepted>>
deviceVars ==
    <<now, resetTimer, devPc, settle, sdkPresent, background, reconnectTimers,
      reportInterval, alerts, reinits, retriesScheduled, errorsHandled,
      lastErrorCode, lastFired>>
reporterVars ==
    <<DEVICE_ID, voicePlaying, flagEverSet, ticks, attempts, inFlight, logged,
      caught>>
\* what a page holds besides the reset timer and its position
pageVars == <<settle, sdkPresent, background, reconnectTimers, reportInterval>>
deviceHistory ==
    <<alerts, reinits, retriesScheduled, errorsHandled, lastErrorCode, lastFired>>

----------------------------------------------------------------------------
(* Bounds of the model *)

\* how many provisioned devices send requests (the registry holds all 20)
MaxActive == 1
\* the device clock runs over the days 0..MaxDay
MaxDay == 1
\* how many SDK errors are delivered to handleSdkError
MaxErrors == 1
\* how many times the report interval ticks
MaxTicks == 3

----------------------------------------------------------------------------
(* JavaScript values *)

Undefined == [t |-> "undefined", n |-> 0, s |-> ""]
Bool(b) == [t |-> "bool", n |-> IF b THEN 1 ELSE 0, s |-> ""]
Num(k) == [t |-> "num", n |-> k, s |-> ""]
Str(x) == [t |-> "str", n |-> 0, s |-> x]

\* ToBoolean: what `!v` and `v ? a : b` test
Truthy(v) ==
    CASE v.t = "bool" -> v.n = 1
      [] v.t = "num" -> v.n # 0
      [] v.t = "str" -> v.s # ""
      [] OTHER -> FALSE

\* ToNumber of the strings the model sends; anything else is NaN
NumericStrings == {"", "400"}
StringToNumber(x) == IF x = "400" THEN 400 ELSE 0

\* v > k for an integer k, as JavaScript's relational comparison computes it
JSGreater(v, k) ==
    CASE v.t = "num" -> v.n > k
      [] v.t = "bool" -> v.n > k
      [] v.t = "str" -> v.s \in NumericStrings /\ StringToNumber(v.s) > k
      [] OTHER -> FALSE

----------------------------------------------------------------------------
(* The registry and the queue: server.js:13-34 *)

FleetSize == 20
MemoryCeiling == 350

DeviceId(i) == "hospital-screen-" \o ToString(i)

ProvisionedIndicesOffByOne == 0 .. FleetSize
ProvisionedIndices == 0 .. (FleetSize - 1)

ProvisionedIds == {DeviceId(i) : i \in ProvisionedIndices}

InitialRecord == [isBusy |-> Bool(FALSE), memory |-> Num(0)]

InitialQueue == <<"T1", "T2", "T3">>
NoTask == "none"

\* Map.has, line 42: only a string equal to a key finds an entry
Has(ds, deviceId) == deviceId.t = "str" /\ deviceId.s \in DOMAIN ds

\* Map.get, line 57: the entry, or undefined
Get(ds, deviceId) == IF Has(ds, deviceId) THEN ds[deviceId.s] ELSE Undefined

\* What a handler answered: the request it served (op, deviceId, and whether
\* the request carried every field the handler reads), the HTTP status, and
\* the body's code, reason (of a refusal) and task.
NoResponse ==
    [op |-> "none", deviceId |-> Undefined, carried |-> FALSE, status |-> 0,
     code |-> 0, reason |-> "none", task |-> NoTask]

Response(op, deviceId, carried, status, code, reason, task) ==
    [op |-> op, deviceId |-> deviceId, carried |-> carried, status |-> status,
     code |-> code, reason |-> reason, task |-> task]

----------------------------------------------------------------------------
(* POST /report-status: server.js:37-48 *)

\* line 39
MissingReportField(deviceId, isBusy, memory) ==
    ~Truthy(deviceId) \/ isBusy = Undefined \/ memory = Undefined

\* every field of the body is there: none is undefined
CarriesAll(deviceId, isBusy, memory) ==
    deviceId # Undefined /\ isBusy # Undefined /\ memory # Undefined

MapSetKeepsOld(ds, key, record) ==
    [k \in DOMAIN ds \cup {key} |-> IF k \in DOMAIN ds THEN ds[k] ELSE record]
\* Map.set, line 43: overwrites the entry of the key, or adds one
MapSet(ds, key, record) ==
    [k \in DOMAIN ds \cup {key} |-> IF k = key THEN record ELSE ds[k]]

RegistryAfterReportSetAlways(ds, deviceId, isBusy, memory) ==
    IF deviceId.t = "str"
    THEN MapSet(ds, deviceId.s, [isBusy |-> isBusy, memory |-> memory])
    ELSE ds
\* lines 42-47: the registry after the has-test and its two branches
RegistryAfterReport(ds, deviceId, isBusy, memory) ==
    IF Has(ds, deviceId)
    THEN MapSet(ds, deviceId.s, [isBusy |-> isBusy, memory |-> memory])
    ELSE ds

ReportStatus(deviceId, isBusy, memory) ==
    LET carried == CarriesAll(deviceId, isBusy, memory) IN
    /\ IF MissingReportField(deviceId, isBusy, memory)
       THEN /\ res' = Response("report-status", deviceId, carried,
                               400, 400, "none", NoTask)
            /\ UNCHANGED <<deviceStatus, held, lastAccepted>>
       ELSE /\ deviceStatus' =
                   RegistryAfterReport(deviceStatus, deviceId, isBusy, memory)
            /\ IF Has(deviceStatus, deviceId)
               THEN /\ res' = Response("report-status", deviceId, carried,
                                       200, 200, "none", NoTask)
                    /\ held' = IF Truthy(isBusy) THEN held
                               ELSE [held EXCEPT ![deviceId.s] = 0]
                    /\ lastAccepted' =
                           [k \in DOMAIN lastAccepted \cup {deviceId.s} |->
                               IF k = deviceId.s
                               THEN [isBusy |-> isBusy, memory |-> memory]
                               ELSE lastAccepted[k]]
               ELSE /\ res' = Response("report-status", deviceId, carried,
                                       404, 404, "none", NoTask)
                    /\ UNCHANGED <<held, lastAccepted>>
    /\ UNCHANGED <<guideTaskQueue, assigned>>
    /\ UNCHANGED deviceVars

----------------------------------------------------------------------------
(* GET /get-task: server.js:51-77 *)

IneligibleOnlyBusy(device) == Truthy(device.isBusy)
\* line 63
Ineligible(device) ==
    Truthy(device.isBusy) \/ JSGreater(device.memory, MemoryCeiling)

RefusalReasonMemoryFirst(device) ==
    IF JSGreater(device.memory, MemoryCeiling) THEN "overMemory" ELSE "busy"
\* line 66
RefusalReason(device) == IF Truthy(device.isBusy) THEN "busy" ELSE "overMemory"

\* Array.prototype.shift, line 72: the element returned and the array left
ShiftedTaskLast(q) == q[Len(q)]
ShiftedTask(q) == Head(q)

QueueAfterShiftKept(q) == q
QueueAfterShiftRequeued(q) == Append(Tail(q), Head(q))
QueueAfterShift(q) == Tail(q)

\* the handler never writes deviceStatus (lines 51-77 hold no deviceStatus.set)
RegistryAfterAssignMarkBusy(ds, key) ==
    [ds EXCEPT ![key] = [isBusy |-> Bool(TRUE), memory |-> ds[key].memory]]
RegistryAfterAssign(ds, key) == ds

\* res.json without res.status answers HTTP 200 (lines 64, 73, 75)
DefaultStatus == 200

GetTask(deviceId) ==
    LET carried == deviceId # Undefined
        device == Get(deviceStatus, deviceId)
        same == UNCHANGED <<deviceStatus, guideTaskQueue, assigned, held>>
    IN
    /\ IF ~Truthy(deviceId)
       THEN /\ res' = Response("get-task", deviceId, carried,
                               400, 400, "none", NoTask)
            /\ same
       ELSE IF device = Undefined
       THEN /\ res' = Response("get-task", deviceId, carried,
                               404, 404, "none", NoTask)
            /\ same
       ELSE IF Ineligible(device)
       THEN /\ res' = Response("get-task", deviceId, carried,
                               DefaultStatus, 403, RefusalReason(device), NoTask)
            /\ same
       ELSE IF Len(guideTaskQueue) > 0
       THEN LET task == ShiftedTask(guideTaskQueue) IN
            /\ guideTaskQueue' = QueueAfterShift(guideTaskQueue)
            /\ deviceStatus' = RegistryAfterAssign(deviceStatus, deviceId.s)
            /\ res' = Response("get-task", deviceId, carried,
                               DefaultStatus, 200, "none", task)
            /\ assigned' = Append(assigned, task)
            /\ held' = [held EXCEPT ![deviceId.s] = @ + 1]
       ELSE /\ res' = Response("get-task", deviceId, carried,
                               DefaultStatus, 204, "none", NoTask)
            /\ same
    /\ UNCHANGED lastAccepted
    /\ UNCHANGED deviceVars

----------------------------------------------------------------------------
(* scheduleDailyReset: device-utils.js:58-88 *)
(* The clock counts milliseconds of local time from midnight of day 0, in  *)
(* a zone whose offset is fixed (no daylight-saving change), so a calendar *)
(* day is 24 hours and setDate(getDate() + 1) adds exactly one day.        *)

MsPerHour == 3600000
ResetHour == 2
MsPerDay == 24 * MsPerHour

\* line 61: setHours(2, 0, 0, 0) on a copy of now
TodayAtResetHour(t) == (t - (t % MsPerDay)) + ResetHour * MsPerHour

ResetTimeSameDay(t) == TodayAtResetHour(t)
\* lines 60-62
ResetTime(t) ==
    IF t > TodayAtResetHour(t) THEN TodayAtResetHour(t) + MsPerDay
    ELSE TodayAtResetHour(t)

\* line 64
Delay(t) == ResetTime(t) - t

NoTimer == [pending |-> FALSE, target |-> 0, delay |-> 0]

\* the times of day at which the model reads the clock
TimesOfDay ==
    {0, MsPerHour, ResetHour * MsPerHour - 1, ResetHour * MsPerHour,
     ResetHour * MsPerHour + 1, 3 * MsPerHour, MsPerDay - 1}
ClockValues == {d * MsPerDay + t : d \in 0 .. MaxDay, t \in TimesOfDay}

\* the page has just been loaded; its startup code calls
\* startStatusReport and scheduleDailyReset
PageLoaded == devPc = "load"

\* the clock values at which a page is still started
Horizon == (MaxDay + 1) * MsPerDay

\* lines 58-67: compute the target and arm the one-shot timer
ScheduleDailyReset ==
    /\ PageLoaded
    /\ now < Horizon
    /\ resetTimer' = [pending |-> TRUE, target |-> ResetTime(now),
                      delay |-> Delay(now)]
    /\ devPc' = "running"
    /\ UNCHANGED <<now, pageVars, deviceHistory>>
    /\ UNCHANGED serverVars

\* the points at which the page waits: between callbacks, and at the two
\* awaits of the reset callback; only there do other callbacks run
Waiting == devPc \in {"running", "awaitDestroy", "awaitCaches"}

\* the due times of all pending timeouts
PendingDues ==
    (IF resetTimer.pending THEN {resetTimer.target} ELSE {})
        \cup {reconnectTimers[i] : i \in 1 .. Len(reconnectTimers)}

\* time passes while the page waits; a due timer fires before the clock
\* moves on
AdvanceClock ==
    /\ Waiting
    /\ \E t \in ClockValues \cup PendingDues :
          /\ t > now
          /\ \A due \in PendingDues : t <= due
          /\ now' = t
    /\ UNCHANGED <<resetTimer, devPc, pageVars, deviceHistory>>
    /\ UNCHANGED serverVars

\* line 67: the timeout elapses and the reset callback starts
ResetTimerFiresDropsReconnects ==
    /\ devPc = "running"
    /\ resetTimer.pending
    /\ now >= resetTimer.target
    /\ resetTimer' = [resetTimer EXCEPT !.pending = FALSE]
    /\ devPc' = "resetting"
    /\ lastFired' = resetTimer.target
    /\ reconnectTimers' = <<>>
    /\ UNCHANGED <<now, settle, sdkPresent, background, reportInterval>>
    /\ UNCHANGED <<alerts, reinits, retriesScheduled, errorsHandled,
                   lastErrorCode>>
    /\ UNCHANGED serverVars
ResetTimerFires ==
    /\ devPc = "running"
    /\ resetTimer.pending
    /\ now >= resetTimer.target
    /\ resetTimer' = [resetTimer EXCEPT !.pending = FALSE]
    /\ devPc' = "resetting"
    /\ lastFired' = resetTimer.target
    /\ UNCHANGED <<now, pageVars>>
    /\ UNCHANGED <<alerts, reinits, retriesScheduled, errorsHandled,
                   lastErrorCode>>
    /\ UNCHANGED serverVars

\* how an awaited promise can end: it resolves, it rejects, or it never
\* settles
Settlements == {"resolve", "reject", "never"}

\* lines 71-72: destroy the SDK instance if there is one
DestroySdk ==
    /\ devPc = "resetting"
    /\ IF sdkPresent
       THEN /\ devPc' = "awaitDestroy"
            /\ settle' \in Settlements
       ELSE /\ devPc' = "caches"
            /\ UNCHANGED settle
    /\ UNCHANGED <<now, resetTimer, sdkPresent, background, reconnectTimers,
                   reportInterval, deviceHistory>>
    /\ UNCHANGED serverVars

\* line 72: the await of destroy() ends; a rejection goes to the catch
DestroySettles ==
    /\ devPc = "awaitDestroy"
    /\ settle \in {"resolve", "reject"}
    /\ devPc' = IF settle = "resolve" THEN "caches" ELSE "catch"
    /\ settle' = "none"
    /\ UNCHANGED <<now, resetTimer, sdkPresent, background, reconnectTimers,
                   reportInterval, deviceHistory>>
    /\ UNCHANGED serverVars

\* lines 76-78: clear the caches if the browser has window.caches
ClearCaches ==
    /\ devPc = "caches"
    /\ \E cachesPresent \in BOOLEAN :
          IF cachesPresent
          THEN /\ devPc' = "awaitCaches"
               /\ settle' \in Settlements
          ELSE /\ devPc' = "reload"
               /\ UNCHANGED settle
    /\ UNCHANGED <<now, resetTimer, sdkPresent, background, reconnectTimers,
                   reportInterval, deviceHistory>>
    /\ UNCHANGED serverVars

\* lines 77-78: the awaits of caches.keys() and Promise.all end
CachesSettle ==
    /\ devPc = "awaitCaches"
    /\ settle \in {"resolve", "reject"}
    /\ devPc' = IF settle = "resolve" THEN "reload" ELSE "catch"
    /\ settle' = "none"
    /\ UNCHANGED <<now, resetTimer, sdkPresent, background, reconnectTimers,
                   reportInterval, deviceHistory>>
    /\ UNCHANGED serverVars

\* lines 82 and 85: window.location.reload().  The page is replaced: its
\* timeouts and its interval are gone, and loading takes time.
Reload ==
    /\ devPc \in {"reload", "catch"}
    /\ devPc' = "load"
    /\ now' = now + 1
    /\ resetTimer' = NoTimer
    /\ reconnectTimers' = <<>>
    /\ reportInterval' = FALSE
    /\ settle' = "none"
    /\ background' = "custom"
    /\ sdkPresent' \in BOOLEAN
    /\ UNCHANGED deviceHistory
    /\ UNCHANGED serverVars

\* lines 35-55: startStatusReport arms the 30-second interval
StartStatusReport ==
    /\ PageLoaded
    /\ ~reportInterval
    /\ reportInterval' = TRUE
    /\ UNCHANGED <<now, resetTimer, devPc, settle, sdkPresent, background,
                   reconnectTimers, deviceHistory>>
    /\ UNCHANGED serverVars

----------------------------------------------------------------------------
(* handleSdkError: device-utils.js:91-106 *)

RetryDelay == 5000

RetryDueSoon(t) == t + 500
\* line 98: setTimeout(..., 5000)
RetryDue(t) == t + RetryDelay

\* the codes delivered to handleSdkError
ErrorCodes == {Num(10001), Num(10002), Num(30001), Num(10003), Str("10002")}

SdkErrorPolicyFatalByDefault(errorCode) ==
    CASE errorCode = Num(10001) ->
            [alert |-> TRUE, retry |-> FALSE, defaultBackground |-> FALSE]
      [] errorCode = Num(10002) ->
            [alert |-> FALSE, retry |-> TRUE, defaultBackground |-> FALSE]
      [] errorCode = Num(30001) ->
            [alert |-> FALSE, retry |-> FALSE, defaultBackground |-> TRUE]
      [] OTHER ->
            [alert |-> TRUE, retry |-> FALSE, defaultBackground |-> FALSE]
\* lines 92-105: the switch, which compares with ===
SdkErrorPolicy(errorCode) ==
    CASE errorCode = Num(10001) ->
            [alert |-> TRUE, retry |-> FALSE, defaultBackground |-> FALSE]
      [] errorCode = Num(10002) ->
            [alert |-> FALSE, retry |-> TRUE, defaultBackground |-> FALSE]
      [] errorCode = Num(30001) ->
            [alert |-> FALSE, retry |-> FALSE, defaultBackground |-> TRUE]
      [] OTHER ->
            [alert |-> FALSE, retry |-> FALSE, defaultBackground |-> FALSE]

HandleSdkError(errorCode) ==
    LET policy == SdkErrorPolicy(errorCode) IN
    /\ Waiting
    /\ errorsHandled < MaxErrors
    /\ alerts' = IF policy.alert THEN alerts + 1 ELSE alerts
    /\ reconnectTimers' =
          IF policy.retry THEN Append(reconnectTimers, RetryDue(now))
          ELSE reconnectTimers
    /\ retriesScheduled' =
          IF policy.retry THEN retriesScheduled + 1 ELSE retriesScheduled
    /\ background' =
          IF policy.defaultBackground /\ sdkPresent THEN "default"
          ELSE background
    /\ errorsHandled' = errorsHandled + 1
    /\ lastErrorCode' = errorCode
    /\ UNCHANGED <<now, resetTimer, devPc, settle, sdkPresent, reportInterval,
                   reinits, lastFired>>
    /\ UNCHANGED serverVars

\* line 98: a reconnect timeout elapses and calls initDigitalHumanSdk()
ReconnectFires ==
    /\ Waiting
    /\ reconnectTimers # <<>>
    /\ now >= Head(reconnectTimers)
    /\ reconnectTimers' = Tail(reconnectTimers)
    /\ reinits' = reinits + 1
    /\ UNCHANGED <<now, resetTimer, devPc, settle, sdkPresent, background,
                   reportInterval, alerts, retriesScheduled, errorsHandled,
                   lastErrorCode, lastFired>>
    /\ UNCHANGED serverVars

----------------------------------------------------------------------------
(* The report loop: device-utils.js:26-55 *)

\* line 29: Math.floor(Math.random() * 50) + 280, of which the least and
\* the greatest
MemoryUsages == {280, 329}

JSONStringifyKeepsUndefined(o) == [f \in DOMAIN o |-> o[f]]
\* line 42: JSON.stringify leaves out a property whose value is undefined
JSONStringify(o) == [f \in {g \in DOMAIN o : o[g] # Undefined} |-> o[f]]

\* server.js:38: a field of the parsed body; undefined if it is not there
BodyField(body, f) == IF f \in DOMAIN body THEN body[f] ELSE Undefined

\* lines 42-46: the body of a report
ReportBody(deviceId, isBusy, memory) ==
    JSONStringify([deviceId |-> deviceId, isBusy |-> isBusy,
                   memory |-> memory])

Request(body) ==
    [body |-> body, phase |-> "sent", status |-> 0, json |-> TRUE,
     caughtBefore |-> caught]

Without(q, i) == SubSeq(q, 1, i - 1) \o SubSeq(q, i + 1, Len(q))

\* the page's voice playback assigns window.voicePlaying
SetVoicePlaying(b) ==
    /\ voicePlaying' = Bool(b)
    /\ voicePlaying' # voicePlaying
    /\ flagEverSet' = TRUE
    /\ UNCHANGED <<DEVICE_ID, ticks, attempts, inFlight, logged, caught>>
    /\ UNCHANGED <<serverVars, deviceVars>>

TickSkipsWhenInFlight ==
    /\ reportInterval
    /\ ticks < MaxTicks
    /\ ticks' = ticks + 1
    /\ IF inFlight = <<>>
       THEN \E memoryUsage \in MemoryUsages :
               /\ inFlight' = Append(inFlight,
                     Request(ReportBody(Str(DEVICE_ID), voicePlaying,
                                        Num(memoryUsage))))
               /\ attempts' = attempts + 1
       ELSE UNCHANGED <<inFlight, attempts>>
    /\ UNCHANGED <<DEVICE_ID, voicePlaying, flagEverSet, logged, caught>>
    /\ UNCHANGED <<serverVars, deviceVars>>
\* lines 36-47: the interval ticks; the callback samples the memory and
\* the flag and calls fetch
Tick ==
    /\ reportInterval
    /\ ticks < MaxTicks
    /\ ticks' = ticks + 1
    /\ \E memoryUsage \in MemoryUsages :
          inFlight' = Append(inFlight,
               Request(ReportBody(Str(DEVICE_ID), voicePlaying,
                                  Num(memoryUsage))))
    /\ attempts' = attempts + 1
    /\ UNCHANGED <<DEVICE_ID, voicePlaying, flagEverSet, logged, caught>>
    /\ UNCHANGED <<serverVars, deviceVars>>

\* lines 39, 50-51: the request does not reach the server, fetch rejects
\* and the catch logs it
FetchFails(i) ==
    /\ inFlight[i].phase = "sent"
    /\ inFlight' = Without(inFlight, i)
    /\ caught' = caught + 1
    /\ UNCHANGED <<DEVICE_ID, voicePlaying, flagEverSet, ticks, attempts,
                   logged>>
    /\ UNCHANGED <<serverVars, deviceVars>>

\* the server handles the report and answers; on its way back the answer
\* stays the server's JSON or is replaced by something that is not JSON
Deliver(i) ==
    /\ inFlight[i].phase = "sent"
    /\ ReportStatus(BodyField(inFlight[i].body, "deviceId"),
                    BodyField(inFlight[i].body, "isBusy"),
                    BodyField(inFlight[i].body, "memory"))
    /\ \E json \in BOOLEAN :
          inFlight' = [inFlight EXCEPT ![i].phase = "answered",
                                       ![i].status = res'.status,
                                       ![i].json = json]
    /\ UNCHANGED <<DEVICE_ID, voicePlaying, flagEverSet, ticks, attempts,
                   logged, caught>>

\* lines 48-51: res.json() resolves and the message is logged, or it
\* rejects and the catch logs the failure
ReadAnswer(i) ==
    /\ inFlight[i].phase = "answered"
    /\ inFlight' = Without(inFlight, i)
    /\ IF inFlight[i].json
       THEN logged' = logged + 1 /\ UNCHANGED caught
       ELSE caught' = caught + 1 /\ UNCHANGED logged
    /\ UNCHANGED <<DEVICE_ID, voicePlaying, flagEverSet, ticks, attempts>>
    /\ UNCHANGED <<serverVars, deviceVars>>

\* no report loop: the state of the reporter before startStatusReport
ReporterIdle ==
    /\ voicePlaying = Undefined
    /\ flagEverSet = FALSE
    /\ ticks = 0
    /\ attempts = 0
    /\ inFlight = <<>>
    /\ logged = 0
    /\ caught = 0

----------------------------------------------------------------------------
(* The requests the model sends *)

ActiveOrder == <<5, 0, 19, 10>>
ActiveIds ==
    {DeviceId(ActiveOrder[k]) :
        k \in 1 .. (IF MaxActive < Len(ActiveOrder) THEN MaxActive
                    ELSE Len(ActiveOrder))}

UnknownId == DeviceId(FleetSize)

\* req.body.deviceId / req.query.deviceId
DeviceIdInputs ==
    {Undefined, Str(""), Str(UnknownId)} \cup {Str(d) : d \in ActiveIds}
\* req.body.isBusy
IsBusyInputs == {Undefined, Bool(TRUE), Bool(FALSE), Str("false")}
\* req.body.memory
MemoryInputs ==
    {Undefined, Num(0), Num(MemoryCeiling), Num(360), Str("400"), Str("abc")}

Init ==
    /\ deviceStatus = [k \in ProvisionedIds |-> InitialRecord]
    /\ guideTaskQueue = InitialQueue
    /\ res = NoResponse
    /\ assigned = <<>>
    /\ held = [k \in ProvisionedIds |-> 0]
    /\ lastAccepted = [k \in {} |-> InitialRecord]
    /\ now = 0
    /\ resetTimer = NoTimer
    /\ devPc = "load"
    /\ settle = "none"
    /\ sdkPresent = FALSE
    /\ background = "custom"
    /\ reconnectTimers = <<>>
    /\ reportInterval = FALSE
    /\ alerts = 0
    /\ reinits = 0
    /\ retriesScheduled = 0
    /\ errorsHandled = 0
    /\ lastErrorCode = Undefined
    /\ lastFired = -1
    /\ DEVICE_ID = UnknownId
    /\ ReporterIdle

Next ==
    \/ /\ \E deviceId \in DeviceIdInputs, isBusy \in IsBusyInputs,
             memory \in MemoryInputs : ReportStatus(deviceId, isBusy, memory)
       /\ UNCHANGED reporterVars
    \/ /\ \E deviceId \in DeviceIdInputs : GetTask(deviceId)
       /\ UNCHANGED reporterVars

Spec == Init /\ [][Next]_vars

\* the device page: the script is loaded at any time of any day
DeviceInit ==
    /\ deviceStatus = [k \in ProvisionedIds |-> InitialRecord]
    /\ guideTaskQueue = InitialQueue
    /\ res = NoResponse
    /\ assigned = <<>>
    /\ held = [k \in ProvisionedIds |-> 0]
    /\ lastAccepted = [k \in {} |-> InitialRecord]
    /\ now \in ClockValues
    /\ resetTimer = NoTimer
    /\ devPc = "load"
    /\ settle = "none"
    /\ sdkPresent \in BOOLEAN
    /\ background = "custom"
    /\ reconnectTimers = <<>>
    /\ reportInterval = FALSE
    /\ alerts = 0
    /\ reinits = 0
    /\ retriesScheduled = 0
    /\ errorsHandled = 0
    /\ lastErrorCode = Undefined
    /\ lastFired = -1
    /\ DEVICE_ID = UnknownId
    /\ ReporterIdle

DevicePageNext ==
    \/ StartStatusReport
    \/ ScheduleDailyReset
    \/ AdvanceClock
    \/ ResetTimerFires
    \/ DestroySdk
    \/ DestroySettles
    \/ ClearCaches
    \/ CachesSettle
    \/ Reload
    \/ \E errorCode \in ErrorCodes : HandleSdkError(errorCode)
    \/ ReconnectFires

DeviceNext == DevicePageNext /\ UNCHANGED reporterVars

SpecDevice == DeviceInit /\ [][DeviceNext]_vars

\* every step of the reset callback that can be taken is taken: the event
\* loop runs a callback whose promise has settled, and a reload that was
\* asked for happens
ResetFairness ==
    /\ WF_vars(DestroySdk /\ UNCHANGED reporterVars)
    /\ WF_vars(DestroySettles /\ UNCHANGED reporterVars)
    /\ WF_vars(ClearCaches /\ UNCHANGED reporterVars)
    /\ WF_vars(CachesSettle /\ UNCHANGED reporterVars)
    /\ WF_vars(Reload /\ UNCHANGED reporterVars)

SpecDeviceFair == DeviceInit /\ [][DeviceNext]_vars /\ ResetFairness

\* a page reporting to the server: its id is one the server knows or one
\* it does not know
ReporterInit ==
    /\ deviceStatus = [k \in ProvisionedIds |-> InitialRecord]
    /\ guideTaskQueue = InitialQueue
    /\ res = NoResponse
    /\ assigned = <<>>
    /\ held = [k \in ProvisionedIds |-> 0]
    /\ lastAccepted = [k \in {} |-> InitialRecord]
    /\ now = 0
    /\ resetTimer = NoTimer
    /\ devPc = "load"
    /\ settle = "none"
    /\ sdkPresent = FALSE
    /\ background = "custom"
    /\ reconnectTimers = <<>>
    /\ reportInterval = FALSE
    /\ alerts = 0
    /\ reinits = 0
    /\ retriesScheduled = 0
    /\ errorsHandled = 0
    /\ lastErrorCode = Undefined
    /\ lastFired = -1
    /\ DEVICE_ID \in {DeviceId(ActiveOrder[1]), UnknownId}
    /\ ReporterIdle

ReporterNext ==
    \/ StartStatusReport /\ UNCHANGED reporterVars
    \/ \E b \in BOOLEAN : SetVoicePlaying(b)
    \/ Tick
    \/ \E i \in 1 .. Len(inFlight) : FetchFails(i)
    \/ \E i \in 1 .. Len(inFlight) : Deliver(i)
    \/ \E i \in 1 .. Len(inFlight) : ReadAnswer(i)

SpecReporter == ReporterInit /\ [][ReporterNext]_vars

----------------------------------------------------------------------------
(* Properties of the server *)

\* what the claims call the provisioned set: hospital-screen-0 .. 19
Screens0To19 == {DeviceId(i) : i \in 0 .. 19}

\* the step just taken served a /get-task of registered device k
ServedGetTask(k) == res'.op = "get-task" /\ res'.deviceId = Str(k)

\* C1: a /get-task for a device whose record, at that moment, has isBusy
\* true or memory > 350 removes no task from the queue and returns none.
C1_IneligibleNeverAssigned ==
    [][\A k \in DOMAIN deviceStatus :
         (/\ ServedGetTask(k)
          /\ \/ Truthy(deviceStatus[k].isBusy)
             \/ JSGreater(deviceStatus[k].memory, 350))
         => /\ guideTaskQueue' = guideTaskQueue
            /\ assigned' = assigned
            /\ res'.task = NoTask
            /\ res'.code # 200]_vars

\* a device recorded idle but over the ceiling asked while tasks were queued
C1_Witness ==
    /\ res.op = "get-task"
    /\ res.code = 403
    /\ Len(guideTaskQueue) > 0
    /\ Has(deviceStatus, res.deviceId)
    /\ ~Truthy(deviceStatus[res.deviceId.s].isBusy)
    /\ JSGreater(deviceStatus[res.deviceId.s].memory, 350)

Range(q) == {q[i] : i \in 1 .. Len(q)}

C4_StatusEqualsCode ==
    res.op = "get-task" => res.status = res.code

\* C5 as stated: a /report-status carrying all three fields whose deviceId
\* is outside hospital-screen-0..19 is answered 404.
C5_UnknownAlways404 ==
    (/\ res.op = "report-status"
     /\ res.carried
     /\ ~(res.deviceId.t = "str" /\ res.deviceId.s \in Screens0To19))
    => res.status = 404

\* C5 amended: such a request is answered 404 when its deviceId is truthy
\* and 400 when it is falsy (the empty string); either way the registry
\* keeps exactly the keys hospital-screen-0..19, and every record and the
\* queue are as before.
C5_UnknownRejected ==
    [][(/\ res'.op = "report-status"
        /\ res'.carried
        /\ ~(res'.deviceId.t = "str" /\ res'.deviceId.s \in Screens0To19))
       => /\ res'.status = (IF Truthy(res'.deviceId) THEN 404 ELSE 400)
          /\ res'.code = res'.status
          /\ DOMAIN deviceStatus' = Screens0To19
          /\ deviceStatus' = deviceStatus
          /\ guideTaskQueue' = guideTaskQueue]_vars

\* a complete report of hospital-screen-20 was refused after the registry
\* and the queue had both changed
C5_Witness ==
    /\ res.op = "report-status"
    /\ res.carried
    /\ res.deviceId = Str("hospital-screen-20")
    /\ res.status = 404
    /\ \E k \in DOMAIN deviceStatus : deviceStatus[k] # InitialRecord
    /\ Len(guideTaskQueue) < 3

\* C6: a refusal of a registered device gives the reason busy exactly when
\* the record's isBusy is true (also when memory is over 350 as well), and
\* overMemory exactly when isBusy is false and memory > 350.  A stored
\* isBusy is true or false as JavaScript's condition takes it.
C6_RefusalReason ==
    (res.op = "get-task" /\ res.code = 403)
    => /\ Has(deviceStatus, res.deviceId)
       /\ LET device == deviceStatus[res.deviceId.s] IN
          /\ res.reason \in {"busy", "overMemory"}
          /\ res.reason = "busy" <=> Truthy(device.isBusy)
          /\ res.reason = "overMemory"
                <=> (~Truthy(device.isBusy) /\ JSGreater(device.memory, 350))
          /\ device.isBusy = Bool(TRUE) => res.reason = "busy"
          /\ (device.isBusy = Bool(FALSE) /\ device.memory = Num(360))
                => res.reason = "overMemory"

\* a device recorded busy and over the ceiling at once was refused as busy
C6_Witness ==
    /\ res.op = "get-task"
    /\ res.code = 403
    /\ res.reason = "busy"
    /\ Has(deviceStatus, res.deviceId)
    /\ deviceStatus[res.deviceId.s].isBusy = Bool(TRUE)
    /\ deviceStatus[res.deviceId.s].memory = Num(360)

\* C7: a request that is rejected (/report-status answered 400 or 404,
\* /get-task answered 400, 404, 403 or 204) changes no device record and
\* leaves the queue as it was.
C7_RejectedChangesNothing ==
    [][(\/ res'.op = "report-status" /\ res'.code \in {400, 404}
        \/ res'.op = "get-task" /\ res'.code \in {400, 404, 403, 204})
       => /\ deviceStatus' = deviceStatus
          /\ guideTaskQueue' = guideTaskQueue]_vars

\* a report was rejected when the registry and the queue had already changed
C7_Witness ==
    /\ res.op = "report-status"
    /\ res.code = 404
    /\ \E k \in DOMAIN deviceStatus : deviceStatus[k] # InitialRecord
    /\ Len(guideTaskQueue) \in {1, 2}

\* C8 as stated: a device that was assigned a task is assigned no other
\* task until a report with busy=false of that device has been accepted.
C8_BusyAfterAssignment ==
    \A k \in DOMAIN held : held[k] <= 1

\* C8 amended: an assignment leaves every device record as it was, so the
\* device stays Idle+LowMemory in the registry; a device that was assigned
\* a task and asks again while its record is still idle and within the
\* ceiling is served from the queue again (the next task, or the
\* empty-queue result).  Only an accepted report changes its record.
C8_AssignmentKeepsRecord ==
    [][/\ (res'.op = "get-task" /\ res'.code = 200 /\ assigned' # assigned)
          => /\ deviceStatus' = deviceStatus
             /\ ~Truthy(deviceStatus'[res'.deviceId.s].isBusy)
             /\ ~JSGreater(deviceStatus'[res'.deviceId.s].memory, 350)
       /\ \A k \in DOMAIN held :
            (/\ held[k] > 0
             /\ ServedGetTask(k)
             /\ ~Truthy(deviceStatus[k].isBusy)
             /\ ~JSGreater(deviceStatus[k].memory, 350))
            => res'.code = (IF guideTaskQueue = <<>> THEN 204 ELSE 200)]_vars

\* a device that already held a task has been assigned another one
C8_Witness ==
    /\ res.op = "get-task"
    /\ res.code = 200
    /\ Has(deviceStatus, res.deviceId)
    /\ held[res.deviceId.s] >= 2

\* C9: every device record holds a boolean busy flag and an integer
\* memory >= 0; a report with a field of another type is never stored.
C9_RecordsWellTyped ==
    \A k \in DOMAIN deviceStatus :
        /\ deviceStatus[k].isBusy.t = "bool"
        /\ deviceStatus[k].memory.t = "num"
        /\ deviceStatus[k].memory.n >= 0


\* C17: the registry holds exactly the 20 provisioned identifiers, and each
\* record is (busy=false, memory=0) while no report of that device has been
\* accepted and otherwise the (isBusy, memory) of the device's latest
\* accepted report; nothing else changes a record.
C17_RecordIsLatestReport ==
    /\ DOMAIN deviceStatus = Screens0To19
    /\ Cardinality(DOMAIN deviceStatus) = 20
    /\ \A k \in DOMAIN deviceStatus :
          deviceStatus[k] =
             IF k \in DOMAIN lastAccepted THEN lastAccepted[k]
             ELSE [isBusy |-> Bool(FALSE), memory |-> Num(0)]

\* a device reported (false, 350) and was then assigned a task; its record
\* is still what it reported
C17_Witness ==
    /\ res.op = "get-task"
    /\ res.code = 200
    /\ \E k \in DOMAIN lastAccepted :
          /\ res.deviceId = Str(k)
          /\ lastAccepted[k] = [isBusy |-> Bool(FALSE), memory |-> Num(350)]
          /\ deviceStatus[k] = lastAccepted[k]
          /\ held[k] >= 1

\* v <= k for an integer k, as JavaScript's relational comparison computes it
JSLessEq(v, k) ==
    CASE v.t = "num" -> v.n <= k
      [] v.t = "bool" -> v.n <= k
      [] v.t = "str" -> v.s \in NumericStrings /\ StringToNumber(v.s) <= k
      [] OTHER -> FALSE

\* C18: eligibility is exactly !busy && memory <= 350: a /get-task of a
\* registered device is served (the head task, or the empty-queue result)
\* when its record has isBusy false and memory <= 350, and only then.
C18_EligibleExactly ==
    (res.op = "get-task" /\ Has(deviceStatus, res.deviceId))
    => LET device == deviceStatus[res.deviceId.s] IN
       res.code \in {200, 204}
          <=> (~Truthy(device.isBusy) /\ JSLessEq(device.memory, 350))

\* C19: the queue only shrinks: the tasks assigned so far and the tasks
\* still queued are always 3 together, and once the queue is empty it stays
\* empty and every eligible /get-task gets the empty-queue result.
C19_QueueOnlyShrinks ==
    [][/\ Len(guideTaskQueue') <= Len(guideTaskQueue)
       /\ Len(assigned') + Len(guideTaskQueue') = 3
       /\ guideTaskQueue = <<>>
             => /\ guideTaskQueue' = <<>>
                /\ \A k \in DOMAIN deviceStatus :
                     (/\ ServedGetTask(k)
                      /\ ~Truthy(deviceStatus[k].isBusy)
                      /\ ~JSGreater(deviceStatus[k].memory, 350))
                     => (res'.code = 204 /\ res'.task = NoTask)]_vars

\* with the queue empty a report was accepted and a later eligible request
\* still found no task
C19_Witness ==
    /\ guideTaskQueue = <<>>
    /\ res.op = "get-task"
    /\ res.code = 204
    /\ \E k \in DOMAIN lastAccepted : held[k] = 0

----------------------------------------------------------------------------
(* Properties of the device *)

\* C10: the target scheduleDailyReset picks is at 02:00:00.000, strictly
\* later than now and at most 24 hours after now.
C10_NextResetStrictlyLater ==
    resetTimer.pending
    => /\ resetTimer.target % 86400000 = 2 * 3600000
       /\ resetTimer.delay > 0
       /\ resetTimer.delay <= 86400000

\* a step in which handleSdkError ran with this code
HandledError(code) ==
    /\ errorsHandled' = errorsHandled + 1
    /\ lastErrorCode' = code

\* a step in which a reconnect timeout fired
ReconnectFired == reinits' = reinits + 1

\* a step in which the reset timeout fired
ResetFired == resetTimer.pending /\ ~resetTimer'.pending /\ devPc' = "resetting"

\* C11: once the reset timer has fired, the page is reloaded eventually,
\* whatever destroy() and the cache clearing do, never settling included.
C11_ReloadAfterFiring == (devPc = "resetting") ~> (devPc = "load")

C13_ReconnectOnce ==
    [][ HandledError(Num(10002))
        => /\ reconnectTimers' = Append(reconnectTimers, now + 5000)
           /\ reinits' = reinits
           /\ resetTimer' = resetTimer
           /\ now' = now
      ]_vars

C13_Witness ==
    /\ lastErrorCode = Num(10002)
    /\ resetTimer.pending
    /\ reconnectTimers = <<now + 5000>>
    /\ reinits = 0

\* C14 as stated: a reconnect firing leaves the reset timer and its target
\* alone, the reset firing leaves the reconnects pending, and a pending
\* reconnect goes away only by firing.
C14_ReconnectAlwaysFires ==
    [][ /\ ReconnectFired => resetTimer' = resetTimer
        /\ ResetFired => reconnectTimers' = reconnectTimers
        /\ Len(reconnectTimers') < Len(reconnectTimers) => ReconnectFired
      ]_vars

\* C14, amended: a reconnect firing leaves the reset timer and its target
\* alone, the reset firing leaves the reconnects pending (they can fire
\* while the reset action awaits), and a pending reconnect goes away only
\* by firing or by the page reload that ends the reset action, which
\* discards all of them.
C14_ReconnectFiresUnlessReloaded ==
    [][ /\ ReconnectFired => resetTimer' = resetTimer
        /\ ResetFired => reconnectTimers' = reconnectTimers
        /\ Len(reconnectTimers') < Len(reconnectTimers)
           => \/ ReconnectFired
              \/ /\ devPc \in {"reload", "catch"}
                 /\ devPc' = "load"
                 /\ reconnectTimers' = <<>>
      ]_vars

\* a reload has discarded a reconnect that was armed and had not fired
C14_Witness ==
    /\ devPc = "load"
    /\ lastFired >= 0
    /\ retriesScheduled > reinits
    /\ reconnectTimers = <<>>

\* C16: 10001 raises one alert and arms no timer; 30001 switches the SDK
\* to the default background at once; every other code except 10002
\* changes nothing on the page; no code touches the reset timer, the
\* report interval or the position of the page.
C16_PolicyTable ==
    [][ (errorsHandled' = errorsHandled + 1)
        => /\ resetTimer' = resetTimer
           /\ reportInterval' = reportInterval
           /\ devPc' = devPc
           /\ reinits' = reinits
           /\ lastErrorCode' = Num(10001)
              => /\ alerts' = alerts + 1
                 /\ reconnectTimers' = reconnectTimers
                 /\ background' = background
           /\ lastErrorCode' = Num(30001)
              => /\ alerts' = alerts
                 /\ reconnectTimers' = reconnectTimers
                 /\ sdkPresent => background' = "default"
           /\ lastErrorCode' \notin {Num(10001), Num(10002), Num(30001)}
              => /\ alerts' = alerts
                 /\ reconnectTimers' = reconnectTimers
                 /\ background' = background
                 /\ sdkPresent' = sdkPresent
                 /\ settle' = settle
                 /\ now' = now
      ]_vars

C16_Witness ==
    /\ lastErrorCode = Num(30001)
    /\ background = "default"
    /\ alerts = 0
    /\ reconnectTimers = <<>>
    /\ resetTimer.pending
    /\ reportInterval

----------------------------------------------------------------------------
(* Properties of the report loop *)

\* a step in which the interval ticked
Ticked == ticks' = ticks + 1

\* a step in which a report ended in a failure: fetch rejected, or the
\* answer was not JSON
ReportFailed ==
    /\ Len(inFlight') < Len(inFlight)
    /\ logged' = logged

\* a step in which the server handled the report at position i
Delivered(i) ==
    /\ i \in 1 .. Len(inFlight)
    /\ Len(inFlight') = Len(inFlight)
    /\ inFlight[i].phase = "sent"
    /\ inFlight'[i].phase = "answered"

\* C15: every tick makes exactly one report attempt, whatever has become
\* of the earlier ones and whether or not they are still in flight; a
\* failed report is logged by the catch and nothing else happens: the
\* interval keeps running and the other reports stay in flight.
C15_OneAttemptPerTick ==
    [][ /\ attempts' = ticks'
        /\ Ticked => /\ Len(inFlight') = Len(inFlight) + 1
                     /\ inFlight'[Len(inFlight')].phase = "sent"
        /\ (reportInterval /\ ticks < MaxTicks) => ENABLED Tick
        /\ reportInterval => reportInterval'
        /\ ReportFailed => /\ caught' = caught + 1
                           /\ Len(inFlight') = Len(inFlight) - 1
                           /\ ticks' = ticks
      ]_vars

\* a tick made its attempt after an earlier report had failed and while
\* another was still in flight with an answer of 400 or 404
C15_Witness ==
    /\ attempts = 3
    /\ Len(inFlight) = 2
    /\ inFlight[1].phase = "answered"
    /\ inFlight[1].status \in {400, 404}
    /\ inFlight[2].phase = "sent"
    /\ inFlight[2].caughtBefore >= 1

\* C20: a report sampled while window.voicePlaying is undefined has no
\* isBusy field; a report without that field is answered 400 and changes
\* no record; and as long as the flag was never assigned every record is
\* the initial one.
C20_UndefinedFlagRejected ==
    [][ /\ (Ticked /\ voicePlaying = Undefined)
           => "isBusy" \notin DOMAIN inFlight'[Len(inFlight')].body
        /\ \A i \in 1 .. Len(inFlight) :
              (Delivered(i) /\ "isBusy" \notin DOMAIN inFlight[i].body)
              => /\ res'.op = "report-status"
                 /\ res'.status = 400
                 /\ inFlight'[i].status = 400
                 /\ deviceStatus' = deviceStatus
        /\ ~flagEverSet'
           => \A k \in DOMAIN deviceStatus' :
                 deviceStatus'[k] = [isBusy |-> Bool(FALSE), memory |-> Num(0)]
      ]_vars

\* a provisioned device whose flag was never assigned has sent two
\* reports, both answered 400
C20_Witness ==
    /\ ~flagEverSet
    /\ DEVICE_ID \in DOMAIN deviceStatus
    /\ Len(inFlight) = 2
    /\ \A i \in 1 .. 2 :
          /\ inFlight[i].phase = "answered"
          /\ inFlight[i].status = 400
          /\ "isBusy" \notin DOMAIN inFlight[i].body
    /\ deviceStatus[DEVICE_ID] = [isBusy |-> Bool(FALSE), memory |-> Num(0)]

====
